---- MODULE Spec2Model ----
(***************************************************************************)
(* Authentication and credential lifecycle of the user-management service: *)
(* the Mongoose user model (password hashing, sanitised JSON), the service *)
(* operations of userService.js (and the class-based UserService), the     *)
(* JWT guard of authMiddleware.js and the error converter.                 *)
(*                                                                         *)
(* Every `await` on the store is a suspension point: an operation that     *)
(* reads and later writes is split into one action per store round trip,   *)
(* so that operations of two callers interleave exactly where the code     *)
(* lets them.  Code between two awaits runs in the action of the earlier   *)
(* store reply (Node runs a continuation to its next await atomically).    *)
(***************************************************************************)
EXTENDS Integers, Sequences, FiniteSets, TLC

\* ------------------------------------------------------------------ bounds
MaxUsers == 2       \* ObjectIds handed out by `new User(...)`
MaxTime  == 1       \* ticks of the wall clock
ExpiresIn == 1      \* env.JWT_EXPIRES_IN ('1h'), in ticks of the clock

Procs     == {"r1", "r2"}                      \* callers in flight
Emails    == {"a@x.com", "A@x.com", "b@x.com"}
Passwords == {"pw1", "pw2"}
Salts     == {"s1", "s2"}
Roles     == {"student", "instructor", "admin"}
Ids       == 1 .. (MaxUsers + 1)               \* MaxUsers + 1 is never assigned
NodeEnvs  == {"", "development", "test", "production"}

JWT_SECRET  == "secret"
OtherSecret == "forged"

\* JS null / undefined, and a string key that is not supplied
Null      == [null |-> TRUE]
Undefined == [undefined |-> TRUE]
Absent    == ""

VARIABLES
    users,      \* the users collection: a set of documents
    nextId,     \* next ObjectId
    now,        \* wall clock (new Date(), jwt iat)
    uniqueIdx,  \* whether the collection carries the unique indexes
    slot,       \* per caller: the operation in flight and its locals
    resp,       \* the outcome of the operation that has just settled
    changed,    \* the last changePassword that succeeded (history)
    guard       \* the last evaluation of a guard middleware

vars == <<users, nextId, now, uniqueIdx, slot, resp, changed, guard>>

\* ------------------------------------------------------------ user model
\* schema option `lowercase: true` on email: a setter applied on
\* construction, on update and on query casting
Lower(e) == IF e = "A@x.com" THEN "a@x.com" ELSE e

\* A password value is a sequence of strings: <<plain>> for a plaintext,
\* <<"$2b$", salt>> \o v for bcrypt.hash(v) with that salt.
Plain(p) == <<p>>
BcryptHash(v, salt) == <<"$2b$", salt>> \o v
IsHash(v) == Len(v) >= 3 /\ v[1] = "$2b$"
\* bcrypt.compare(plain, stored): re-hash plain with the salt in stored
BcryptCompare(p, stored) == IsHash(stored) /\ stored = BcryptHash(Plain(p), stored[2])

\* userSchema.methods.comparePassword
comparePassword(doc, p) == BcryptCompare(p, doc.password)

\* a schema whose counter of failed logins starts at one
NewUserCounted(id, data) ==
    [ id |-> id,
      username |-> data.username,
      email |-> Lower(data.email),
      password |-> Plain(data.password),
      role |-> IF data.role = Absent THEN "student" ELSE data.role,
      isActive |-> TRUE,
      failedLoginAttempts |-> 1,
      lastLoginAt |-> -1 ]
\* new User(data): schema defaults and setters; every path is modified
NewUser(id, data) ==
    [ id |-> id,
      username |-> data.username,
      email |-> Lower(data.email),
      password |-> Plain(data.password),
      role |-> IF data.role = Absent THEN "student" ELSE data.role,
      isActive |-> TRUE,
      failedLoginAttempts |-> 0,
      lastLoginAt |-> -1 ]

\* a save hook that writes the document as it was assigned
PreSaveUnhashed(doc, modified, salt) == doc
\* userSchema.pre('save'): hash only when the password path is modified
PreSave(doc, modified, salt) ==
    IF "password" \notin modified THEN doc
    ELSE [doc EXCEPT !.password = BcryptHash(doc.password, salt)]

\* toObject alone: every path of the document
toObject(doc) == doc
\* userSchema.methods.toJSON: the document without its password
toJSON(doc) == [f \in (DOMAIN doc) \ {"password"} |-> doc[f]]

\* ------------------------------------------------------------- the store
ById(id) == {u \in users : u.id = id}

\* a unique index on username and one on email reject a write of doc
DupKey(doc) ==
    \E u \in users : u.id # doc.id /\ (u.email = doc.email \/ u.username = doc.username)

\* a save that writes every path of the document as it was read
SaveWhole(doc, modified) ==
    {IF u.id = doc.id THEN doc ELSE u : u \in users}
\* doc.save() of a loaded document: updateOne({ _id }, { $set: modified paths })
SaveExisting(doc, modified) ==
    {IF u.id = doc.id
     THEN [f \in DOMAIN u |-> IF f \in modified THEN doc[f] ELSE u[f]]
     ELSE u : u \in users}

\* a read without select('+password'): the schema has password select: false
Projected(u) == [f \in (DOMAIN u) \ {"password"} |-> u[f]]

\* db.js: autoIndex: !process.env.NODE_ENV === 'production'
\* (! binds first: a boolean is compared with a string by ===)
StrictEq(a, b) == a.t = b.t /\ a.v = b.v
AutoIndex(nodeEnv) ==
    StrictEq([t |-> "boolean", v |-> IF nodeEnv = "" THEN "true" ELSE "false"],
             [t |-> "string", v |-> "production"])

\* ------------------------------------------------------------- outcomes
ApiError(status, msg) == [name |-> "ApiError", statusCode |-> status, message |-> msg]
\* errors of the driver and of Mongoose carry no statusCode (0 here)
MongoDupError == [name |-> "MongoServerError", statusCode |-> 0,
                  message |-> "E11000 duplicate key error"]
DocNotFoundError == [name |-> "DocumentNotFoundError", statusCode |-> 0,
                     message |-> "No document found for query"]
NoError == [name |-> "", statusCode |-> 0, message |-> ""]
\* throw new ApiError(404, 'User not found')
UserNotFoundError == ApiError(404, "User not found")

Throw(e) == [thrown |-> TRUE, error |-> e, user |-> Null, token |-> Null]
Return(u, t) == [thrown |-> FALSE, error |-> NoError, user |-> u, token |-> t]

\* a caller is idle or suspended at an await with its locals
Idle == [pc |-> "idle", op |-> "", args |-> Null, doc |-> Null]
Wait(pc, op, args, doc) == [pc |-> pc, op |-> op, args |-> args, doc |-> doc]
\* the outcome handed to caller p when its operation settles
Settle(op, args, doc, res) == [op |-> op, args |-> args, doc |-> doc, res |-> res]
NoResp == [op |-> "", args |-> Null, doc |-> Null, res |-> Null]
NoChange == [userId |-> 0, currentPassword |-> "", newPassword |-> "", hash |-> <<>>]

\* ---------------------------------------------------------------- tokens
\* jwt.sign(payload, secret, { expiresIn })
jwtSign(payload, secret, t) ==
    [form |-> "jwt", sub |-> payload.sub, role |-> payload.role,
     key |-> secret, exp |-> t + ExpiresIn]
\* jwt.verify: throws on a malformed token, a bad signature or an expired one
\* jwt.decode in place of jwt.verify: the structure alone
jwtDecodes(token, secret, t) == token.form = "jwt"
jwtVerifies(token, secret, t) ==
    token.form = "jwt" /\ token.key = secret /\ t < token.exp

generateToken(payload, t) == jwtSign(payload, JWT_SECRET, t)

\* ------------------------------------------------------------ createUser
RegisterData ==
    { [username |-> "alice", email |-> "a@x.com", password |-> "pw1", role |-> Absent],
      [username |-> "alice", email |-> "b@x.com", password |-> "pw2", role |-> Absent],
      [username |-> "bob",   email |-> "A@x.com", password |-> "pw1", role |-> "admin"],
      [username |-> "bob",   email |-> "b@x.com", password |-> "pw2", role |-> "admin"] }

\* User.findOne({ $or: [{ email: data.email }, { username: data.username }] })
Exists(data) ==
    \E u \in users : u.email = Lower(data.email) \/ u.username = data.username

\* the check for an existing account: 409, or new User(data)
CreateUserFind(p, data) ==
    /\ resp = NoResp
    /\ slot[p].pc = "idle"
    /\ LET exists == Exists(data)
       IN IF exists
          THEN /\ resp' = Settle("createUser", data, Null,
                          Throw(ApiError(409, "User with email or username already exists")))
               /\ UNCHANGED <<nextId, slot>>
          ELSE /\ nextId <= MaxUsers
               /\ slot' = [slot EXCEPT ![p] =
                     Wait("createSave", "createUser", data, NewUser(nextId, data))]
               /\ nextId' = nextId + 1
               /\ UNCHANGED resp
    /\ UNCHANGED <<users, now, uniqueIdx, changed, guard>>

\* user.save() of the new document (User.create(userData) in the class-based
\* service, which then blanks user.password): pre-save hash, then the insert
CreateUserSave(p) ==
    /\ resp = NoResp
    /\ slot[p].pc = "createSave"
    /\ \E salt \in Salts :
         LET s == slot[p]
             doc == PreSave(s.doc, {"password"}, salt)
         IN IF uniqueIdx /\ DupKey(doc)
            THEN /\ resp' = Settle(s.op, s.args, doc, Throw(MongoDupError))
                 /\ UNCHANGED users
            ELSE /\ users' = users \cup {doc}
                 /\ resp' = Settle(s.op, s.args, doc,
                                   Return(IF s.op = "createUser" THEN doc ELSE Projected(doc), Null))
    /\ slot' = [slot EXCEPT ![p] = Idle]
    /\ UNCHANGED <<nextId, now, uniqueIdx, changed, guard>>

\* ----------------------------------------------------------------- login
LoginArgs == [email : Emails, password : Passwords]

\* if (!user) throw ...
LoginUnknownEmailError == ApiError(404, "User not found")
LoginNoUserError == ApiError(401, "Invalid credentials")
\* if (!ok) throw ...
LoginBadPasswordError == ApiError(401, "Invalid credentials")

\* a filter value is cast by the schema of its path, setters included:
\* the email of a query is lowercased (lowercase: true)
QueryAsGiven(email) == email
QueryCast(email) == Lower(email)

\* the filter { email, isActive: true } of login's findOne
AnyAccount(u, email) == u.email = Lower(email)
ActiveAccount(u, email) == u.email = QueryCast(email) /\ u.isActive = TRUE

\* the payload login signs: { sub: user.id, role: user.role }
PayloadWithDefaultRole(user) == [sub |-> user.id, role |-> "student"]
LoginTokenPayload(user) == [sub |-> user.id, role |-> user.role]

\* user.lastLoginAt = new Date(); user.failedLoginAttempts = 0
LoginStampBefore(user, t) == [user EXCEPT !.lastLoginAt = t - 1, !.failedLoginAttempts = 0]
LoginStamp(user, t) == [user EXCEPT !.lastLoginAt = t, !.failedLoginAttempts = 0]

\* the arguments of a login call, with the time the call began
Started(a, t) == [email |-> a.email, password |-> a.password, started |-> t]

\* findOne({ email, isActive: true }).select('+password'), comparePassword,
\* then the assignments to lastLoginAt and failedLoginAttempts
LoginFind(p, a) ==
    /\ resp = NoResp
    /\ slot[p].pc = "idle"
    /\ LET found == {u \in users : ActiveAccount(u, a.email)}
       IN IF found = {}
          THEN /\ resp' = Settle("login", a, Null, Throw(LoginNoUserError))
               /\ UNCHANGED slot
          ELSE \E user \in found :
                 IF ~comparePassword(user, a.password)
                 THEN /\ resp' = Settle("login", a, user, Throw(LoginBadPasswordError))
                      /\ UNCHANGED slot
                 ELSE /\ slot' = [slot EXCEPT ![p] = Wait("loginSave", "login",
                                   Started(a, now), LoginStamp(user, now))]
                      /\ UNCHANGED resp
    /\ UNCHANGED <<users, nextId, now, uniqueIdx, changed, guard>>

\* await user.save() rejects: login rejects with the same error, and the
\* lines that sign the token and return are not reached
LoginSaveIgnored(doc, t) == Return(toJSON(doc), generateToken(LoginTokenPayload(doc), t))
LoginSaveRejected(doc, t) == Throw(DocNotFoundError)

\* user.save(), generateToken({ sub: user.id, role: user.role }), user.toJSON()
LoginSave(p) ==
    /\ resp = NoResp
    /\ slot[p].pc = "loginSave"
    /\ \E salt \in Salts :
         LET s == slot[p]
             modified == {"lastLoginAt", "failedLoginAttempts"}
             doc == PreSave(s.doc, modified, salt)
         IN IF ById(doc.id) = {}
            THEN /\ resp' = Settle(s.op, s.args, doc, LoginSaveRejected(doc, now))
                 /\ UNCHANGED users
            ELSE /\ users' = SaveExisting(doc, modified)
                 /\ resp' = Settle(s.op, s.args, doc,
                        Return(toJSON(doc), generateToken(LoginTokenPayload(doc), now)))
    /\ slot' = [slot EXCEPT ![p] = Idle]
    /\ UNCHANGED <<nextId, now, uniqueIdx, changed, guard>>

\* --------------------------------------------- UserService.loginUser
\* The class-based service runs on a model whose schema is not part of the
\* repository; its documents carry the same fields here, lastLogin being
\* kept in lastLoginAt.
Error(status, msg) == [name |-> "Error", statusCode |-> status, message |-> msg]

\* user.matchPassword(password)
matchPassword(doc, p) == BcryptCompare(p, doc.password)
\* user.getSignedJwtToken()
getSignedJwtToken(doc, t) == jwtSign([sub |-> doc.id, role |-> doc.role], JWT_SECRET, t)

\* if (!user.isActive): new Error('Account is deactivated'), statusCode 401
LoginUserInvalidError == Error(401, "Invalid credentials")
LoginUserDeactivatedError == Error(401, "Account is deactivated")

\* getUserByEmail(email, true): findOne({ email: email.toLowerCase() })
\*   .select('+password'); then the isActive check and matchPassword
LoginUserFind(p, a) ==
    /\ resp = NoResp
    /\ slot[p].pc = "idle"
    /\ LET found == {u \in users : u.email = Lower(a.email)}
       IN IF found = {}
          THEN /\ resp' = Settle("loginUser", a, Null, Throw(Error(401, "Invalid credentials")))
               /\ UNCHANGED slot
          ELSE \E user \in found :
                 IF ~user.isActive
                 THEN /\ resp' = Settle("loginUser", a, user,
                                        Throw(LoginUserDeactivatedError))
                      /\ UNCHANGED slot
                 ELSE IF ~matchPassword(user, a.password)
                 THEN /\ resp' = Settle("loginUser", a, user,
                                        Throw(Error(401, "Invalid credentials")))
                      /\ UNCHANGED slot
                 ELSE /\ slot' = [slot EXCEPT ![p] = Wait("loginUserSave", "loginUser",
                                   Started(a, now),
                                   [user EXCEPT !.lastLoginAt = now])]
                      /\ UNCHANGED resp
    /\ UNCHANGED <<users, nextId, now, uniqueIdx, changed, guard>>

\* user.save(), user.getSignedJwtToken(), user.password = undefined
LoginUserSave(p) ==
    /\ resp = NoResp
    /\ slot[p].pc = "loginUserSave"
    /\ \E salt \in Salts :
         LET s == slot[p]
             modified == {"lastLoginAt"}
             doc == PreSave(s.doc, modified, salt)
         IN IF ById(doc.id) = {}
            THEN /\ resp' = Settle(s.op, s.args, doc, Throw(DocNotFoundError))
                 /\ UNCHANGED users
            ELSE /\ users' = SaveExisting(doc, modified)
                 /\ resp' = Settle(s.op, s.args, doc,
                        Return(Projected(doc), getSignedJwtToken(doc, now)))
    /\ slot' = [slot EXCEPT ![p] = Idle]
    /\ UNCHANGED <<nextId, now, uniqueIdx, changed, guard>>


\* ------------------------------------ createUser of the class-based service
\* getUserByEmail(email): User.findOne({ email: email.toLowerCase() })
getUserByEmail(email) == {u \in users : u.email = Lower(email)}

\* getUserByEmail(email) called without includePassword: the document is
\* read without select('+password'); null when there is none
GetUserByEmail(p, email) ==
    /\ resp = NoResp
    /\ slot[p].pc = "idle"
    /\ IF getUserByEmail(email) = {}
       THEN resp' = Settle("UserService.getUserByEmail", [email |-> email], Null,
                           Return(Null, Null))
       ELSE \E u \in getUserByEmail(email) :
              resp' = Settle("UserService.getUserByEmail", [email |-> email],
                             Projected(u), Return(Projected(u), Null))
    /\ UNCHANGED <<users, nextId, now, uniqueIdx, slot, changed, guard>>

\* UserService.createUser: the check for an existing email (400), or
\* User.create(userData), whose write is CreateUserSave
UserServiceCreateUser(p, data) ==
    /\ resp = NoResp
    /\ slot[p].pc = "idle"
    /\ LET existingUser == getUserByEmail(data.email)
       IN IF existingUser # {}
          THEN /\ resp' = Settle("UserService.createUser", data, Null,
                          Throw(Error(400, "User already exists with this email")))
               /\ UNCHANGED <<nextId, slot>>
          ELSE /\ nextId <= MaxUsers
               /\ slot' = [slot EXCEPT ![p] =
                     Wait("createSave", "UserService.createUser", data, NewUser(nextId, data))]
               /\ nextId' = nextId + 1
               /\ UNCHANGED resp
    /\ UNCHANGED <<users, now, uniqueIdx, changed, guard>>

\* -------------------------------------------------------- changePassword
ChangePasswordArgs ==
    [userId : Ids, currentPassword : Passwords, newPassword : Passwords]

\* if (!ok) throw ...
ChangePasswordAsLoginError == ApiError(401, "Invalid credentials")
ChangePasswordBadCurrentError == ApiError(400, "Current password is incorrect")

\* user.password = newPassword
AssignsCurrentPassword(a) == Plain(a.currentPassword)
AssignsNewPassword(a) == Plain(a.newPassword)

\* findById(userId).select('+password'), comparePassword, user.password = new
ChangePasswordFind(p, a) ==
    /\ resp = NoResp
    /\ slot[p].pc = "idle"
    /\ IF ById(a.userId) = {}
       THEN /\ resp' = Settle("changePassword", a, Null, Throw(ApiError(404, "User not found")))
            /\ UNCHANGED slot
       ELSE \E user \in ById(a.userId) :
              IF ~comparePassword(user, a.currentPassword)
              THEN /\ resp' = Settle("changePassword", a, user,
                                     Throw(ChangePasswordBadCurrentError))
                   /\ UNCHANGED slot
              ELSE /\ slot' = [slot EXCEPT ![p] = Wait("passwordSave", "changePassword", a,
                                [user EXCEPT !.password = AssignsNewPassword(a)])]
                   /\ UNCHANGED resp
    /\ UNCHANGED <<users, nextId, now, uniqueIdx, changed, guard>>

\* user.save(): the pre-save hook hashes the modified password
ChangePasswordSave(p) ==
    /\ resp = NoResp
    /\ slot[p].pc = "passwordSave"
    /\ \E salt \in Salts :
         LET s == slot[p]
             modified == {"password"}
             doc == PreSave(s.doc, modified, salt)
         IN IF ById(doc.id) = {}
            THEN /\ resp' = Settle(s.op, s.args, doc, Throw(DocNotFoundError))
                 /\ UNCHANGED users
                 /\ UNCHANGED changed
            ELSE /\ users' = SaveExisting(doc, modified)
                 /\ resp' = Settle(s.op, s.args, doc, Return(Null, Null))
                 /\ changed' = [userId |-> doc.id,
                                currentPassword |-> s.args.currentPassword,
                                newPassword |-> s.args.newPassword,
                                hash |-> doc.password]
    /\ slot' = [slot EXCEPT ![p] = Idle]
    /\ UNCHANGED <<nextId, now, uniqueIdx, guard>>

\* -------------------------------------------------------------- updateMe
Patches ==
    { [username |-> "bob"],
      [email |-> "A@x.com"],
      [email |-> "b@x.com", role |-> "admin", password |-> Plain("pw2")],
      [password |-> Plain("pw2"), role |-> "admin", isActive |-> FALSE],
      [lastLoginAt |-> 0, isActive |-> FALSE] }
UpdateMeArgs == [userId : Ids, update : Patches]

\* const allowed = ['username', 'email']
allowed == {"username", "email"}
\* Object.fromEntries(Object.entries(update).filter(([k]) => allowed.includes(k)))
Payload(update) == [k \in (DOMAIN update) \cap allowed |-> update[k]]

\* the document after $set of the payload, cast by the schema
ApplyUpdate(u, payload) ==
    [f \in DOMAIN u |->
        IF f \in DOMAIN payload
        THEN (IF f = "email" THEN Lower(payload[f]) ELSE payload[f])
        ELSE u[f]]

\* findByIdAndUpdate(userId, payload, { new: true, runValidators: true })
UpdateMe(p, a) ==
    /\ resp = NoResp
    /\ slot[p].pc = "idle"
    /\ IF ById(a.userId) = {}
       THEN /\ resp' = Settle("updateMe", a, Null, Throw(UserNotFoundError))
            /\ UNCHANGED users
       ELSE \E u \in ById(a.userId) :
              LET doc == ApplyUpdate(u, Payload(a.update))
              IN IF uniqueIdx /\ DupKey(doc)
                 THEN /\ resp' = Settle("updateMe", a, Null, Throw(MongoDupError))
                      /\ UNCHANGED users
                 ELSE /\ users' = (users \ {u}) \cup {doc}
                      /\ resp' = Settle("updateMe", a, Projected(doc),
                                        Return(Projected(doc), Null))
    /\ UNCHANGED <<nextId, now, uniqueIdx, slot, changed, guard>>

\* ------------------------- updateMe of the class-based controller
\* const { password, role, isActive, ...updateData } = req.body
stripped == {"password", "role", "isActive"}
UpdateData(body) == [k \in (DOMAIN body) \ stripped |-> body[k]]
\* UserService.updateUser: const { password, ...safeUpdateData } = updateData
SafeUpdateData(updateData) == [k \in (DOMAIN updateData) \ {"password"} |-> updateData[k]]

\* userService.updateUser(req.user.id, updateData):
\* findByIdAndUpdate(userId, safeUpdateData, { new, runValidators }).select('-password')
ControllerUpdateMe(p, a) ==
    /\ resp = NoResp
    /\ slot[p].pc = "idle"
    /\ IF ById(a.userId) = {}
       THEN /\ resp' = Settle("controller.updateMe", a, Null, Throw(Error(404, "User not found")))
            /\ UNCHANGED users
       ELSE \E u \in ById(a.userId) :
              LET doc == ApplyUpdate(u, SafeUpdateData(UpdateData(a.update)))
              IN IF uniqueIdx /\ DupKey(doc)
                 THEN /\ resp' = Settle("controller.updateMe", a, Null, Throw(MongoDupError))
                      /\ UNCHANGED users
                 ELSE /\ users' = (users \ {u}) \cup {doc}
                      /\ resp' = Settle("controller.updateMe", a, Projected(doc),
                                        Return(Projected(doc), Null))
    /\ UNCHANGED <<nextId, now, uniqueIdx, slot, changed, guard>>

\* ----------------------------------------------- getUserById, deleteUser
GetUserById(p, id) ==
    /\ resp = NoResp
    /\ slot[p].pc = "idle"
    /\ IF ById(id) = {}
       THEN resp' = Settle("getUserById", [userId |-> id], Null,
                           Throw(ApiError(404, "User not found")))
       ELSE \E u \in ById(id) :
              resp' = Settle("getUserById", [userId |-> id], Projected(u),
                             Return(Projected(u), Null))
    /\ UNCHANGED <<users, nextId, now, uniqueIdx, slot, changed, guard>>

\* the collection after findByIdAndDelete(id): the document is gone
SoftDeleted(id) == {IF u.id = id THEN [u EXCEPT !.isActive = FALSE] ELSE u : u \in users}
HardDeleted(id) == users \ ById(id)

\* const res = await User.findByIdAndDelete(id): res is the deleted document
DeleteUser(p, id) ==
    /\ resp = NoResp
    /\ slot[p].pc = "idle"
    /\ IF ById(id) = {}
       THEN /\ resp' = Settle("deleteUser", [userId |-> id], Null,
                              Throw(ApiError(404, "User not found")))
            /\ UNCHANGED users
       ELSE \E res \in ById(id) :
            /\ users' = HardDeleted(id)
            /\ resp' = Settle("deleteUser", [userId |-> id], res, Return(Null, Null))
    /\ UNCHANGED <<nextId, now, uniqueIdx, slot, changed, guard>>

\* ------------------------- getUser, updateUser, deleteUser by id (class-based)
\* req.user of a caller that passed auth
Callers == [id : 1 .. MaxUsers, role : {"student", "admin"}]
ByIdArgs == [caller : Callers, id : Ids]
\* the bodies that leave username and email alone
ByIdPatches == {u \in Patches : DOMAIN u \cap {"username", "email"} = {}}
ByIdUpdateArgs == [caller : Callers, id : Ids, update : ByIdPatches]

\* getUser: userService.getUserById(req.params.id), findById.select('-password');
\* a null user is answered with res.status(404)
ControllerGetUser(p, a) ==
    /\ resp = NoResp
    /\ slot[p].pc = "idle"
    /\ IF ById(a.id) = {}
       THEN resp' = Settle("controller.getUser", a, Null, Throw(Error(404, "User not found")))
       ELSE \E u \in ById(a.id) :
              resp' = Settle("controller.getUser", a, Projected(u), Return(Projected(u), Null))
    /\ UNCHANGED <<users, nextId, now, uniqueIdx, slot, changed, guard>>

\* updateUser: userService.updateUser(req.params.id, req.body)
ControllerUpdateUser(p, a) ==
    /\ resp = NoResp
    /\ slot[p].pc = "idle"
    /\ IF ById(a.id) = {}
       THEN /\ resp' = Settle("controller.updateUser", a, Null, Throw(Error(404, "User not found")))
            /\ UNCHANGED users
       ELSE \E u \in ById(a.id) :
              LET doc == ApplyUpdate(u, SafeUpdateData(a.update))
              IN IF uniqueIdx /\ DupKey(doc)
                 THEN /\ resp' = Settle("controller.updateUser", a, Null, Throw(MongoDupError))
                      /\ UNCHANGED users
                 ELSE /\ users' = (users \ {u}) \cup {doc}
                      /\ resp' = Settle("controller.updateUser", a, Projected(doc),
                                        Return(Projected(doc), Null))
    /\ UNCHANGED <<nextId, now, uniqueIdx, slot, changed, guard>>

\* deleteUser: userService.deleteUser(req.params.id), findByIdAndDelete
ControllerDeleteUser(p, a) ==
    /\ resp = NoResp
    /\ slot[p].pc = "idle"
    /\ IF ById(a.id) = {}
       THEN /\ resp' = Settle("controller.deleteUser", a, Null, Throw(Error(404, "User not found")))
            /\ UNCHANGED users
       ELSE /\ users' = users \ ById(a.id)
            /\ resp' = Settle("controller.deleteUser", a, Null, Return(Null, Null))
    /\ UNCHANGED <<nextId, now, uniqueIdx, slot, changed, guard>>

\* ----------------------------------------------------------- the guard
\* An Authorization header is its scheme followed by words, each after one
\* space: "Bearer" has no word, "Bearer " has one empty word.
EmptyWord == [form |-> "empty"]
Garbage   == [form |-> "garbage"]
NoHeader  == [scheme |-> Absent, words |-> <<>>, present |-> FALSE]
Header(scheme, words) == [scheme |-> scheme, words |-> words, present |-> TRUE]

\* header.startsWith('Bearer ')
StartsWithAnyScheme(h) == Len(h.words) >= 1
StartsWithBearer(h) == h.scheme = "Bearer" /\ Len(h.words) >= 1
\* header && header.startsWith('Bearer ') ? header.split(' ')[1] : null
BearerToken(h) ==
    IF h.present /\ StartsWithBearer(h) THEN h.words[1] ELSE Null
\* !token
Falsy(token) == token = Null \/ token = EmptyWord

\* a guard that looks the account up again and takes only an active one
authOfActiveAccount(required, header, t) ==
    LET token == BearerToken(header)
    IN IF Falsy(token)
       THEN IF required
            THEN [error |-> ApiError(401, "Authentication required"), user |-> Undefined]
            ELSE [error |-> NoError, user |-> Null]
       ELSE IF /\ jwtVerifies(token, JWT_SECRET, t)
               /\ \E u \in users : u.id = token.sub /\ u.isActive
            THEN [error |-> NoError, user |-> [id |-> token.sub, role |-> token.role]]
            ELSE [error |-> ApiError(401, "Invalid or expired token"), user |-> Undefined]
\* auth(required)(req, _res, next): the error passed to next and req.user
auth(required, header, t) ==
    LET token == BearerToken(header)
    IN IF Falsy(token)
       THEN IF required
            THEN [error |-> ApiError(401, "Authentication required"), user |-> Undefined]
            ELSE [error |-> NoError, user |-> Null]
       ELSE IF jwtVerifies(token, JWT_SECRET, t)
            THEN [error |-> NoError, user |-> [id |-> token.sub, role |-> token.role]]
            ELSE [error |-> ApiError(401, "Invalid or expired token"), user |-> Undefined]

GuardTokens ==
    {jwtSign([sub |-> i, role |-> r], k, t) :
        i \in 1 .. MaxUsers, r \in Roles, k \in {JWT_SECRET, OtherSecret}, t \in -1 .. MaxTime}
    \cup {Garbage}
Headers ==
    {NoHeader, Header("Bearer", <<>>), Header("Bearer", <<EmptyWord>>),
     Header("Bearer", <<EmptyWord, Garbage>>)}
    \cup {Header(sch, <<tok>>) : sch \in {"Bearer", "bearer", "Basic"}, tok \in GuardTokens}

NoGuard == [mw |-> "", required |-> FALSE, header |-> NoHeader, at |-> 0, out |-> Null]

Auth(required, header) ==
    /\ guard' = [mw |-> "auth", required |-> required, header |-> header, at |-> now,
                 out |-> auth(required, header, now)]
    /\ UNCHANGED <<users, nextId, now, uniqueIdx, slot, resp, changed>>

\* !req.user
NoIdentity(user) == user = Null \/ user = Undefined
\* roles.length && !roles.includes(req.user.role)
RoleRefusedWhenSeveral(roles, user) ==
    Len(roles) > 1 /\ ~(\E i \in 1 .. Len(roles) : roles[i] = user.role)
RoleRefused(roles, user) ==
    Len(roles) # 0 /\ ~(\E i \in 1 .. Len(roles) : roles[i] = user.role)

\* authorize(...roles)(req, _res, next): the error passed to next
authorize(roles, user) ==
    IF NoIdentity(user) THEN ApiError(401, "Authentication required")
    ELSE IF RoleRefused(roles, user) THEN ApiError(403, "Insufficient permissions")
    ELSE NoError

\* the role lists of the routes and of the documented examples
RoleLists == {<<>>, <<"admin">>, <<"instructor", "admin">>}
\* req.user as auth (or no auth at all) leaves it; 'user' is a role of the
\* class-based model's tokens
Identities ==
    {Null, Undefined} \cup [id : 1 .. MaxUsers, role : Roles \cup {"user"}]

Authorize(roles, user) ==
    /\ guard' = [mw |-> "authorize", roles |-> roles, user |-> user,
                 out |-> [error |-> authorize(roles, user), user |-> user]]
    /\ UNCHANGED <<users, nextId, now, uniqueIdx, slot, resp, changed>>
GuardTick ==
    /\ now < MaxTime
    /\ now' = now + 1
    /\ guard' = NoGuard
    /\ UNCHANGED <<users, nextId, uniqueIdx, slot, resp, changed>>

\* ------------------------------------------------------- error handling
\* converter: anything that is not an ApiError becomes one
converter(err) ==
    IF err.name = "CelebrateError" THEN ApiError(400, "Validation error")
    ELSE IF err.name # "ApiError"
    THEN ApiError(IF err.statusCode # 0 THEN err.statusCode ELSE 500,
                  IF err.message # "" THEN err.message ELSE "Internal Server Error")
    ELSE err

\* handler: the status and message of the response
handler(err) ==
    [status |-> IF err.statusCode # 0 THEN err.statusCode ELSE 500,
     message |-> IF err.message # "" THEN err.message ELSE "Internal Server Error"]

\* what the caller of the HTTP API sees of an operation that threw
Reported(res) == handler(converter(res.error))

\* isProd: env.NODE_ENV === 'production' (an unset NODE_ENV is 'development')
isProd(nodeEnv) == nodeEnv = "production"
\* err.stack: the name and message of the error whose trace it is
Stack(err) == <<err.name, err.message>>
\* handler: the body it sends, payload.stack = err.stack unless isProd
payload(err, nodeEnv) ==
    IF isProd(nodeEnv)
    THEN handler(err)
    ELSE [status |-> handler(err).status, message |-> handler(err).message,
          stack |-> Stack(err)]
\* the body of the response to an error passed to next(), through
\* app.use(converter) and app.use(handler)
ErrorBody(err, nodeEnv) == payload(converter(err), nodeEnv)

\* ------------------------------------------------------ the admin routes
\* a request rejected by celebrate
CelebrateError == [name |-> "CelebrateError", statusCode |-> 0, message |-> "Validation failed"]

\* auth() and then authorize(...roles): the first error, and req.user
\* auth() alone, authorize left out of the chain
GuardedByAuthOnly(header, roles, t) == auth(TRUE, header, t)
Guarded(header, roles, t) ==
    LET a == auth(TRUE, header, t)
    IN IF a.error # NoError THEN a
       ELSE [error |-> authorize(roles, a.user), user |-> a.user]

\* tokens of the requests to the routes: issued at time 0, one forged
RouteTokens ==
    {jwtSign([sub |-> i, role |-> r], JWT_SECRET, 0) :
        i \in 1 .. 2, r \in {"student", "admin"}}
    \cup {jwtSign([sub |-> 1, role |-> "admin"], OtherSecret, 0)}
RouteHeaders == {NoHeader} \cup {Header("Bearer", <<tok>>) : tok \in RouteTokens}

\* objectIdSchema: params.id is 24 hex digits (0 stands for one that is not)
RouteIds == 0 .. (MaxUsers + 1)
ValidObjectId(id) == id \in Ids

\* router.delete('/:id', auth(), authorize('admin'), objectIdSchema, ctrl.remove)
RouteRemove(p, header, id) ==
    /\ resp = NoResp
    /\ slot[p].pc = "idle"
    /\ LET g == Guarded(header, <<"admin">>, now)
           a == [header |-> header, id |-> id, caller |-> g.user]
       IN IF g.error # NoError
          THEN /\ resp' = Settle("DELETE /:id", a, Null, Throw(g.error))
               /\ UNCHANGED users
          ELSE IF ~ValidObjectId(id)
          THEN /\ resp' = Settle("DELETE /:id", a, Null, Throw(CelebrateError))
               /\ UNCHANGED users
          ELSE IF ById(id) = {}
          THEN /\ resp' = Settle("DELETE /:id", a, Null, Throw(UserNotFoundError))
               /\ UNCHANGED users
          ELSE /\ users' = users \ ById(id)
               /\ resp' = Settle("DELETE /:id", a, Null, Return(Null, Null))
    /\ UNCHANGED <<nextId, now, uniqueIdx, slot, changed, guard>>

\* listUsersSchema: page >= 1, 1 <= limit <= 100, role optional
ListQueries ==
    { [page |-> 1, limit |-> 1, role |-> Absent],
      [page |-> 1, limit |-> 2, role |-> "admin"],
      [page |-> 2, limit |-> 1, role |-> Absent],
      [page |-> 0, limit |-> 1, role |-> Absent] }
ValidListQuery(q) == q.page >= 1 /\ q.limit >= 1 /\ q.limit <= 100

\* listUsers: query, skip
Matching(q) == {u \in users : q.role = Absent \/ u.role = q.role}
Skip(q) == (q.page - 1) * q.limit
Max(a, b) == IF a >= b THEN a ELSE b
Min(a, b) == IF a <= b THEN a ELSE b
\* Math.ceil(total / limit)
Ceil(total, limit) == (total + limit - 1) \div limit
\* Math.ceil(total / limit) || 1
Pages(total, limit) == IF Ceil(total, limit) = 0 THEN 1 ELSE Ceil(total, limit)

NoReads == [haveItems |-> FALSE, items |-> {}, haveTotal |-> FALSE, total |-> 0]

\* router.get('/', auth(), authorize('admin'), listUsersSchema, ctrl.list):
\* the guards, then listUsers starts its two reads (Promise.all)
RouteList(p, header, q) ==
    /\ resp = NoResp
    /\ slot[p].pc = "idle"
    /\ LET g == Guarded(header, <<"admin">>, now)
           a == [header |-> header, query |-> q, caller |-> g.user]
       IN IF g.error # NoError
          THEN /\ resp' = Settle("GET /", a, Null, Throw(g.error))
               /\ UNCHANGED slot
          ELSE IF ~ValidListQuery(q)
          THEN /\ resp' = Settle("GET /", a, Null, Throw(CelebrateError))
               /\ UNCHANGED slot
          ELSE /\ slot' = [slot EXCEPT ![p] = Wait("listReads", "GET /", a, NoReads)]
               /\ UNCHANGED resp
    /\ UNCHANGED <<users, nextId, now, uniqueIdx, changed, guard>>

\* the result of listUsers once both reads have answered
ListResult(q, reads) ==
    [items |-> reads.items, page |-> q.page, limit |-> q.limit,
     total |-> reads.total, pages |-> Pages(reads.total, q.limit)]

\* UserService.getUsers(filters, options): its two reads start (Promise.all)
GetUsers(p, q) ==
    /\ resp = NoResp
    /\ slot[p].pc = "idle"
    /\ slot' = [slot EXCEPT ![p] =
                  Wait("listReads", "UserService.getUsers", [query |-> q], NoReads)]
    /\ UNCHANGED <<users, nextId, now, uniqueIdx, resp, changed, guard>>

\* the result of getUsers: pages: Math.ceil(total / limit)
GetUsersResult(q, reads) ==
    [users |-> reads.items, page |-> q.page, limit |-> q.limit,
     total |-> reads.total, pages |-> Ceil(reads.total, q.limit)]

\* one of the two reads answers: User.find(query).skip(skip).limit(limit)
\* .sort({ createdAt: -1 }) (the model carries no createdAt: any order), or
\* User.countDocuments(query)
ListRead(p) ==
    /\ resp = NoResp
    /\ slot[p].pc = "listReads"
    /\ LET s == slot[p]
           q == s.args.query
           size == Min(q.limit, Max(0, Cardinality(Matching(q)) - Skip(q)))
       IN \E reads \in
              {[s.doc EXCEPT !.haveItems = TRUE, !.items = {Projected(u) : u \in page}] :
                  page \in {pg \in SUBSET Matching(q) :
                               ~s.doc.haveItems /\ Cardinality(pg) = size}}
              \cup {[s.doc EXCEPT !.haveTotal = TRUE, !.total = Cardinality(Matching(q))] :
                  x \in {y \in {0} : ~s.doc.haveTotal}} :
            IF reads.haveItems /\ reads.haveTotal
            THEN /\ resp' = Settle(s.op, s.args, Null,
                                   Return(IF s.op = "UserService.getUsers"
                                          THEN GetUsersResult(q, reads)
                                          ELSE ListResult(q, reads), Null))
                 /\ slot' = [slot EXCEPT ![p] = Idle]
            ELSE /\ slot' = [slot EXCEPT ![p] = [s EXCEPT !.doc = reads]]
                 /\ UNCHANGED resp
    /\ UNCHANGED <<users, nextId, now, uniqueIdx, changed, guard>>

\* ------------------------------------------------------ response bodies
\* res.json(body): JSON.stringify writes a Mongoose document through its
\* toJSON method and a plain object as it is
Json(value, isDocument) == IF isDocument THEN toJSON(value) ELSE value
\* login returns user.toJSON(), a plain object; the other operations return
\* the document itself
ReturnsDocument(op) == op # "login"
\* the users written into the body of the response to result r
ResponseUsers(r) ==
    IF r.op = "GET /"
    THEN {Json(u, TRUE) : u \in r.res.user.items}
    ELSE {Json(r.res.user, ReturnsDocument(r.op))}

\* registerSchema: role is optional and one of student, instructor, admin
ValidRegisterBody(body) == body.role = Absent \/ body.role \in Roles

\* router.post('/register', authLimiter, registerSchema, ctrl.register):
\* no auth() in the chain, the header of the request is not read;
\* createUser(req.body)
RouteRegister(p, header, body) ==
    /\ resp = NoResp
    /\ slot[p].pc = "idle"
    /\ LET a == [header |-> header, body |-> body, caller |-> Undefined]
       IN IF ~ValidRegisterBody(body)
          THEN /\ resp' = Settle("POST /register", a, Null, Throw(CelebrateError))
               /\ UNCHANGED <<nextId, slot>>
          ELSE IF Exists(body)
          THEN /\ resp' = Settle("POST /register", a, Null,
                          Throw(ApiError(409, "User with email or username already exists")))
               /\ UNCHANGED <<nextId, slot>>
          ELSE /\ nextId <= MaxUsers
               /\ slot' = [slot EXCEPT ![p] =
                     Wait("createSave", "POST /register", a, NewUser(nextId, body))]
               /\ nextId' = nextId + 1
               /\ UNCHANGED resp
    /\ UNCHANGED <<users, now, uniqueIdx, changed, guard>>

\* ------------------------------------------------- the routes under /me
\* a caller keeps the token of its login for its later requests
KeepToken(p) ==
    /\ resp.op = "login"
    /\ ~resp.res.thrown
    /\ slot[p].pc = "idle"
    /\ slot' = [slot EXCEPT ![p] = Wait("holding", "", Null, resp.res.token)]
    /\ resp' = NoResp
    /\ UNCHANGED <<users, nextId, now, uniqueIdx, changed, guard>>

\* the Authorization header of a caller that holds a token
Bearer(token) == Header("Bearer", <<token>>)

\* updateMeSchema: username and email only, at least one of them
ValidUpdateMeBody(body) ==
    DOMAIN body \subseteq {"username", "email"} /\ DOMAIN body # {}
MeBodies == {[username |-> "carol"], [role |-> "admin"]}
MePasswords == {[currentPassword |-> "pw1", newPassword |-> "pw2"]}

\* a handler that takes the first record, whoever calls
FirstRecordId(user) == 1
\* req.user.id: the id the handlers under /me hand to the service
SelfId(user) == user.id

\* router.get('/me', auth(), ctrl.me): getUserById(req.user.id)
RouteMe(p) ==
    /\ resp = NoResp
    /\ slot[p].pc = "holding"
    /\ LET header == Bearer(slot[p].doc)
           g == auth(TRUE, header, now)
           a == [header |-> header, caller |-> g.user]
       IN IF g.error # NoError
          THEN resp' = Settle("GET /me", a, Null, Throw(g.error))
          ELSE IF ById(SelfId(g.user)) = {}
          THEN resp' = Settle("GET /me", a, Null, Throw(UserNotFoundError))
          ELSE \E u \in ById(SelfId(g.user)) :
                 resp' = Settle("GET /me", a, Projected(u), Return(Projected(u), Null))
    /\ UNCHANGED <<users, nextId, now, uniqueIdx, slot, changed, guard>>

\* router.patch('/me', auth(), updateMeSchema, ctrl.updateMe):
\* updateMe(req.user.id, req.body)
RouteUpdateMe(p, body) ==
    /\ resp = NoResp
    /\ slot[p].pc = "holding"
    /\ LET header == Bearer(slot[p].doc)
           g == auth(TRUE, header, now)
           a == [header |-> header, update |-> body, caller |-> g.user]
       IN IF g.error # NoError
          THEN /\ resp' = Settle("PATCH /me", a, Null, Throw(g.error))
               /\ UNCHANGED users
          ELSE IF ~ValidUpdateMeBody(body)
          THEN /\ resp' = Settle("PATCH /me", a, Null, Throw(CelebrateError))
               /\ UNCHANGED users
          ELSE IF ById(SelfId(g.user)) = {}
          THEN /\ resp' = Settle("PATCH /me", a, Null, Throw(UserNotFoundError))
               /\ UNCHANGED users
          ELSE \E u \in ById(SelfId(g.user)) :
                 LET doc == ApplyUpdate(u, Payload(body))
                 IN IF uniqueIdx /\ DupKey(doc)
                    THEN /\ resp' = Settle("PATCH /me", a, Null, Throw(MongoDupError))
                         /\ UNCHANGED users
                    ELSE /\ users' = (users \ {u}) \cup {doc}
                         /\ resp' = Settle("PATCH /me", a, Projected(doc),
                                           Return(Projected(doc), Null))
    /\ UNCHANGED <<nextId, now, uniqueIdx, slot, changed, guard>>

\* router.post('/me/change-password', auth(), changePasswordSchema,
\* ctrl.changePassword): changePassword(req.user.id, currentPassword,
\* newPassword) up to its user.save(), which is ChangePasswordSave
RouteChangePassword(p, body) ==
    /\ resp = NoResp
    /\ slot[p].pc = "holding"
    /\ LET header == Bearer(slot[p].doc)
           g == auth(TRUE, header, now)
       IN IF g.error # NoError
          THEN /\ resp' = Settle("POST /me/change-password",
                                 [header |-> header, userId |-> 0,
                                  currentPassword |-> body.currentPassword,
                                  newPassword |-> body.newPassword],
                                 Null, Throw(g.error))
               /\ UNCHANGED slot
          ELSE LET a == [header |-> header, userId |-> SelfId(g.user),
                         currentPassword |-> body.currentPassword,
                         newPassword |-> body.newPassword]
               IN IF ById(a.userId) = {}
                  THEN /\ resp' = Settle("POST /me/change-password", a, Null,
                                         Throw(UserNotFoundError))
                       /\ UNCHANGED slot
                  ELSE \E user \in ById(a.userId) :
                         IF ~comparePassword(user, a.currentPassword)
                         THEN /\ resp' = Settle("POST /me/change-password", a, user,
                                                Throw(ChangePasswordBadCurrentError))
                              /\ UNCHANGED slot
                         ELSE /\ slot' = [slot EXCEPT ![p] =
                                    Wait("passwordSave", "POST /me/change-password", a,
                                         [user EXCEPT !.password = AssignsNewPassword(a)])]
                              /\ UNCHANGED resp
    /\ UNCHANGED <<users, nextId, now, uniqueIdx, changed, guard>>

\* ------------------------------------------------------------ environment
\* an account is deactivated directly on the model:
\* User.findByIdAndUpdate(id, { isActive: false })
Deactivate(id) ==
    /\ resp = NoResp
    /\ \E u \in ById(id) :
         /\ u.isActive
         /\ users' = (users \ {u}) \cup {[u EXCEPT !.isActive = FALSE]}
    /\ UNCHANGED <<nextId, now, uniqueIdx, slot, resp, changed, guard>>

Tick ==
    /\ resp = NoResp
    /\ now < MaxTime
    /\ now' = now + 1
    /\ UNCHANGED <<users, nextId, uniqueIdx, slot, resp, changed, guard>>

\* the caller takes the outcome of its operation.  An outcome is observed
\* in the state right after the step that settles the operation, before any
\* other step: taking it changes nothing the operations read.
Deliver ==
    /\ resp # NoResp
    /\ resp' = NoResp
    /\ UNCHANGED <<users, nextId, now, uniqueIdx, slot, changed, guard>>

Init ==
    /\ users = {}
    /\ nextId = 1
    /\ now = 0
    /\ \E env \in NodeEnvs, built \in BOOLEAN : uniqueIdx = (AutoIndex(env) \/ built)
    /\ slot = [p \in Procs |-> Idle]
    /\ resp = NoResp
    /\ changed = NoChange
    /\ guard = NoGuard

\* ---------------------------------------------------------- the system
Next ==
    \/ \E p \in Procs, data \in RegisterData : CreateUserFind(p, data)
    \/ \E p \in Procs : CreateUserSave(p)
    \/ \E p \in Procs, data \in RegisterData : UserServiceCreateUser(p, data)
    \/ \E p \in Procs, a \in LoginArgs : LoginFind(p, a)
    \/ \E p \in Procs : LoginSave(p)
    \/ \E p \in Procs, a \in LoginArgs : LoginUserFind(p, a)
    \/ \E p \in Procs : LoginUserSave(p)
    \/ \E p \in Procs, a \in ChangePasswordArgs : ChangePasswordFind(p, a)
    \/ \E p \in Procs : ChangePasswordSave(p)
    \/ \E p \in Procs, a \in UpdateMeArgs : UpdateMe(p, a)
    \/ \E p \in Procs, a \in UpdateMeArgs : ControllerUpdateMe(p, a)
    \/ \E p \in Procs, id \in Ids : GetUserById(p, id)
    \/ \E p \in Procs, email \in Emails : GetUserByEmail(p, email)
    \/ \E p \in Procs, id \in Ids : DeleteUser(p, id)
    \/ \E p \in Procs, a \in ByIdArgs : ControllerGetUser(p, a)
    \/ \E p \in Procs, a \in ByIdUpdateArgs : ControllerUpdateUser(p, a)
    \/ \E p \in Procs, a \in ByIdArgs : ControllerDeleteUser(p, a)
    \/ \E p \in Procs, header \in RouteHeaders, id \in RouteIds : RouteRemove(p, header, id)
    \/ \E p \in Procs, header \in RouteHeaders, q \in ListQueries : RouteList(p, header, q)
    \/ \E p \in Procs, q \in {o \in ListQueries : ValidListQuery(o)} : GetUsers(p, q)
    \/ \E p \in Procs : ListRead(p)
    \/ \E p \in Procs : KeepToken(p)
    \/ \E p \in Procs, body \in MeBodies : RouteUpdateMe(p, body)
    \/ \E p \in Procs, body \in MePasswords : RouteChangePassword(p, body)
    \/ \E roles \in RoleLists, user \in Identities : Authorize(roles, user)
    \/ \E id \in Ids : Deactivate(id)
    \/ Tick
    \/ Deliver

\* All operations, every input: the system as a whole.
Spec == Init /\ [][Next]_vars

\* The specifications below are Spec restricted to the operations that read
\* or write what a group of properties is about, so that every interleaving
\* of those operations is explored; each of their behaviours is one of Spec.

\* Authentication: accounts are registered, deactivated, and logged into.
AuthRegisterData == {d \in RegisterData : Lower(d.email) = "a@x.com"}
NextAuth ==
    \/ \E p \in Procs, data \in AuthRegisterData : CreateUserFind(p, data)
    \/ \E p \in Procs : CreateUserSave(p)
    \/ \E p \in Procs, a \in LoginArgs : LoginFind(p, a)
    \/ \E p \in Procs : LoginSave(p)
    \/ \E p \in Procs, a \in LoginArgs : LoginUserFind(p, a)
    \/ \E p \in Procs : LoginUserSave(p)
    \/ \E id \in Ids : Deactivate(id)
    \/ Tick
    \/ Deliver
SpecAuth == Init /\ [][NextAuth]_vars

\* Registration and deletion: createUser of userService.js and of the
\* class-based service, racing on the same usernames and emails.
NextAccounts ==
    \/ \E p \in Procs, data \in RegisterData : CreateUserFind(p, data)
    \/ \E p \in Procs : CreateUserSave(p)
    \/ \E p \in Procs, data \in RegisterData : UserServiceCreateUser(p, data)
    \/ \E p \in Procs, id \in Ids : GetUserById(p, id)
    \/ \E p \in Procs, id \in Ids : DeleteUser(p, id)
    \/ Deliver
SpecAccounts == Init /\ [][NextAccounts]_vars

\* Profile updates: updateMe of userService.js and of the class-based
\* controller, on accounts registered with distinct usernames and emails.
ProfileRegisterData == {d \in RegisterData : (d.username = "alice") = (d.email = "a@x.com")}
NextProfile ==
    \/ \E p \in Procs, data \in ProfileRegisterData : CreateUserFind(p, data)
    \/ \E p \in Procs : CreateUserSave(p)
    \/ \E p \in Procs, a \in UpdateMeArgs : UpdateMe(p, a)
    \/ \E p \in Procs, a \in UpdateMeArgs : ControllerUpdateMe(p, a)
    \/ Deliver
SpecProfile == Init /\ [][NextProfile]_vars

\* Passwords: one registered account, password changes and logins.
PasswordRegisterData == {d \in RegisterData : d.username = "alice" /\ d.email = "a@x.com"}
PasswordLoginArgs == {a \in LoginArgs : a.email = "a@x.com"}
NextPassword ==
    \/ \E p \in Procs, data \in PasswordRegisterData : CreateUserFind(p, data)
    \/ \E p \in Procs : CreateUserSave(p)
    \/ \E p \in Procs, a \in ChangePasswordArgs : ChangePasswordFind(p, a)
    \/ \E p \in Procs : ChangePasswordSave(p)
    \/ \E p \in Procs, a \in PasswordLoginArgs : LoginFind(p, a)
    \/ \E p \in Procs : LoginSave(p)
    \/ \E id \in Ids : Deactivate(id)
    \/ Deliver
SpecPassword == Init /\ [][NextPassword]_vars

\* Records reached by id through the class-based controller and through
\* the DELETE /:id route.
NextResource ==
    \/ \E p \in Procs, data \in ProfileRegisterData : CreateUserFind(p, data)
    \/ \E p \in Procs : CreateUserSave(p)
    \/ \E p \in Procs, a \in ByIdArgs : ControllerGetUser(p, a)
    \/ \E p \in Procs, a \in ByIdUpdateArgs : ControllerUpdateUser(p, a)
    \/ \E p \in Procs, a \in ByIdArgs : ControllerDeleteUser(p, a)
    \/ \E p \in Procs, header \in RouteHeaders, id \in RouteIds : RouteRemove(p, header, id)
    \/ Deliver
SpecResource == Init /\ [][NextResource]_vars

\* The admin routes GET / and DELETE /:id behind their guards.
NextAdmin ==
    \/ \E p \in Procs, data \in ProfileRegisterData : CreateUserFind(p, data)
    \/ \E p \in Procs : CreateUserSave(p)
    \/ \E p \in Procs, header \in RouteHeaders, id \in RouteIds : RouteRemove(p, header, id)
    \/ \E p \in Procs, header \in RouteHeaders, q \in ListQueries : RouteList(p, header, q)
    \/ \E p \in Procs : ListRead(p)
    \/ Deliver
SpecAdmin == Init /\ [][NextAdmin]_vars

\* Sessions: a caller logs in, keeps its token and uses it on the routes
\* under /me while the account is deactivated or deleted and time passes.
SessionRegisterData == {d \in RegisterData : d.username = "bob" /\ d.password = "pw1"}
SessionLoginArgs == {[email |-> Lower(d.email), password |-> d.password] : d \in SessionRegisterData}
NextSession ==
    \/ \E p \in Procs, data \in SessionRegisterData : CreateUserFind(p, data)
    \/ \E p \in Procs : CreateUserSave(p)
    \/ \E p \in Procs, a \in SessionLoginArgs : LoginFind(p, a)
    \/ \E p \in Procs : LoginSave(p)
    \/ \E p \in Procs : KeepToken(p)
    \/ \E p \in Procs, body \in MeBodies : RouteUpdateMe(p, body)
    \/ \E p \in Procs, body \in MePasswords : RouteChangePassword(p, body)
    \/ \E p \in Procs : ChangePasswordSave(p)
    \/ \E p \in Procs, id \in Ids : DeleteUser(p, id)
    \/ \E id \in Ids : Deactivate(id)
    \/ Tick
    \/ Deliver
SpecSession == Init /\ [][NextSession]_vars

\* Logins of both services while accounts are deleted and time passes.
NextLogin ==
    \/ \E p \in Procs, data \in SessionRegisterData : CreateUserFind(p, data)
    \/ \E p \in Procs : CreateUserSave(p)
    \/ \E p \in Procs, a \in SessionLoginArgs : LoginFind(p, a)
    \/ \E p \in Procs : LoginSave(p)
    \/ \E p \in Procs, a \in SessionLoginArgs : LoginUserFind(p, a)
    \/ \E p \in Procs : LoginUserSave(p)
    \/ \E p \in Procs, id \in Ids : DeleteUser(p, id)
    \/ \E p \in Procs, id \in Ids : GetUserById(p, id)
    \/ \E id \in Ids : Deactivate(id)
    \/ Tick
    \/ Deliver
SpecLogin == Init /\ [][NextLogin]_vars

\* Responses: every operation that answers with a user, of both services.
PayloadHeaders == {Header("Bearer", <<generateToken([sub |-> 1, role |-> "admin"], 0)>>)}
PayloadUpdates ==
    {a \in UpdateMeArgs :
        \A k \in DOMAIN Payload(a.update) : k = "email" /\ Lower(a.update[k]) = "a@x.com"}
NextPayload ==
    \/ \E p \in Procs, data \in SessionRegisterData : CreateUserFind(p, data)
    \/ \E p \in Procs, data \in SessionRegisterData : UserServiceCreateUser(p, data)
    \/ \E p \in Procs : CreateUserSave(p)
    \/ \E p \in Procs, a \in SessionLoginArgs : LoginFind(p, a)
    \/ \E p \in Procs : LoginSave(p)
    \/ \E p \in Procs, a \in SessionLoginArgs : LoginUserFind(p, a)
    \/ \E p \in Procs : LoginUserSave(p)
    \/ \E p \in Procs, id \in Ids : GetUserById(p, id)
    \/ \E p \in Procs, a \in PayloadUpdates : UpdateMe(p, a)
    \/ \E p \in Procs, a \in ByIdArgs : ControllerGetUser(p, a)
    \/ \E p \in Procs, email \in Emails : GetUserByEmail(p, email)
    \/ \E p \in Procs, header \in PayloadHeaders, q \in ListQueries : RouteList(p, header, q)
    \/ \E p \in Procs : ListRead(p)
    \/ Deliver
SpecPayload == Init /\ [][NextPayload]_vars

\* Credentials: every operation that writes a user record, with request
\* bodies that carry a password.
NextCredentials ==
    \/ \E p \in Procs, data \in SessionRegisterData : CreateUserFind(p, data)
    \/ \E p \in Procs : CreateUserSave(p)
    \/ \E p \in Procs, a \in {c \in ChangePasswordArgs : c.currentPassword = "pw1"} :
           ChangePasswordFind(p, a)
    \/ \E p \in Procs : ChangePasswordSave(p)
    \/ \E p \in Procs, a \in {u \in UpdateMeArgs : "password" \in DOMAIN u.update /\ "email" \notin DOMAIN u.update} :
           UpdateMe(p, a)
    \/ \E p \in Procs, a \in {u \in UpdateMeArgs : "password" \in DOMAIN u.update /\ "email" \notin DOMAIN u.update} :
           ControllerUpdateMe(p, a)
    \/ \E p \in Procs, a \in SessionLoginArgs : LoginFind(p, a)
    \/ \E p \in Procs : LoginSave(p)
    \/ Deliver
SpecCredentials == Init /\ [][NextCredentials]_vars

\* Listings: listUsers behind its route and getUsers of the class-based
\* service, while accounts are registered and deleted.
NextListing ==
    \/ \E p \in Procs, data \in SessionRegisterData : CreateUserFind(p, data)
    \/ \E p \in Procs : CreateUserSave(p)
    \/ \E p \in Procs, id \in Ids : DeleteUser(p, id)
    \/ \E p \in Procs, header \in PayloadHeaders, q \in ListQueries : RouteList(p, header, q)
    \/ \E p \in Procs, q \in {o \in ListQueries : ValidListQuery(o)} : GetUsers(p, q)
    \/ \E p \in Procs : ListRead(p)
    \/ Deliver
SpecListing == Init /\ [][NextListing]_vars

\* Lookups by email, in every spelling, of accounts registered, deactivated.
NextLookup ==
    \/ \E p \in Procs, data \in AuthRegisterData : CreateUserFind(p, data)
    \/ \E p \in Procs : CreateUserSave(p)
    \/ \E p \in Procs, a \in LoginArgs : LoginFind(p, a)
    \/ \E p \in Procs : LoginSave(p)
    \/ \E p \in Procs, a \in LoginArgs : LoginUserFind(p, a)
    \/ \E p \in Procs : LoginUserSave(p)
    \/ \E p \in Procs, email \in Emails : GetUserByEmail(p, email)
    \/ \E id \in Ids : Deactivate(id)
    \/ Deliver
SpecLookup == Init /\ [][NextLookup]_vars

\* Defaults: accounts are registered with and without a role, logged into,
\* and updated with bodies that carry lastLoginAt.
NextDefaults ==
    \/ \E p \in Procs, data \in AuthRegisterData : CreateUserFind(p, data)
    \/ \E p \in Procs, data \in AuthRegisterData : UserServiceCreateUser(p, data)
    \/ \E p \in Procs : CreateUserSave(p)
    \/ \E p \in Procs, a \in PasswordLoginArgs : LoginFind(p, a)
    \/ \E p \in Procs : LoginSave(p)
    \/ \E p \in Procs, a \in PasswordLoginArgs : LoginUserFind(p, a)
    \/ \E p \in Procs : LoginUserSave(p)
    \/ \E p \in Procs, a \in {u \in UpdateMeArgs : "lastLoginAt" \in DOMAIN u.update} :
           UpdateMe(p, a)
    \/ \E p \in Procs, a \in {u \in UpdateMeArgs : "lastLoginAt" \in DOMAIN u.update} :
           ControllerUpdateMe(p, a)
    \/ Tick
    \/ Deliver
SpecDefaults == Init /\ [][NextDefaults]_vars

\* Registration: requests to the public route, with and without a token,
\* and removals that free the names for later requests.
NextRegistration ==
    \/ \E p \in Procs, header \in RouteHeaders,
          body \in RegisterData \cup
            { [username |-> "carol", email |-> "c@x.com", password |-> "pw1", role |-> "instructor"],
              [username |-> "carol", email |-> "c@x.com", password |-> "pw1", role |-> "root"] } :
           RouteRegister(p, header, body)
    \/ \E p \in Procs : CreateUserSave(p)
    \/ \E p \in Procs, id \in Ids : DeleteUser(p, id)
    \/ Deliver
SpecRegistration == Init /\ [][NextRegistration]_vars

\* Self-service: two accounts, each caller holding the token of its own
\* login, and the three routes under /me.
NextSelf ==
    \/ \E p \in Procs, data \in ProfileRegisterData : CreateUserFind(p, data)
    \/ \E p \in Procs : CreateUserSave(p)
    \/ \E p \in Procs, d \in ProfileRegisterData :
           LoginFind(p, [email |-> d.email, password |-> d.password])
    \/ \E p \in Procs : LoginSave(p)
    \/ \E p \in Procs : KeepToken(p)
    \/ \E p \in Procs : RouteMe(p)
    \/ \E p \in Procs, body \in {[email |-> "A@x.com"], [id |-> 1, username |-> "carol"]} :
           RouteUpdateMe(p, body)
    \/ \E p \in Procs, body \in {[currentPassword |-> "pw2", newPassword |-> "pw1"]} :
           RouteChangePassword(p, body)
    \/ \E p \in Procs : ChangePasswordSave(p)
    \/ Deliver
SpecSelf == Init /\ [][NextSelf]_vars

\* The guard middleware on every header, at every time.
NextGuard ==
    \/ \E required \in BOOLEAN, header \in Headers : Auth(required, header)
    \/ \E roles \in RoleLists, user \in Identities : Authorize(roles, user)
    \/ GuardTick
SpecGuard == Init /\ [][NextGuard]_vars

\* =========================================================== properties
LoginOps == {"login", "loginUser"}
UpdateMeOps == {"updateMe", "controller.updateMe"}
\* the accounts an email address names
Matches(email) == {u \in users : u.email = Lower(email)}
\* the step settled an operation without suspending: it failed at its first read
SettledAtOnce == resp = NoResp /\ resp' # NoResp /\ slot' = slot

\* C1: a login with a wrong password for an existing active account and a
\* login with an unknown email fail with the same error: status 401,
\* message 'Invalid credentials'.
InvalidCredentialsOf(op) ==
    IF op = "login" THEN ApiError(401, "Invalid credentials")
    ELSE Error(401, "Invalid credentials")
UnknownEmail(r) == Matches(r.args.email) = {}
WrongPassword(r) ==
    /\ Matches(r.args.email) # {}
    /\ \A u \in Matches(r.args.email) :
          u.isActive /\ ~BcryptCompare(r.args.password, u.password)
C1_SameFailure ==
    (resp.op \in LoginOps /\ (UnknownEmail(resp) \/ WrongPassword(resp)))
    => /\ resp.res = Throw(InvalidCredentialsOf(resp.op))
       /\ Reported(resp.res) = [status |-> 401, message |-> "Invalid credentials"]
C1_Witness ==
    resp.op = "login" /\ WrongPassword(resp) /\ resp.res.thrown

\* C2: a login on an account that is not active fails and carries no token,
\* whatever the password, for login and for loginUser.
ReadInactive(r) ==
    \/ r.doc # Null /\ ~r.doc.isActive
    \/ /\ r.doc = Null
       /\ Matches(r.args.email) # {}
       /\ \A u \in Matches(r.args.email) : ~u.isActive
C2_InactiveNeverLogsIn ==
    (resp.op \in LoginOps /\ ReadInactive(resp))
    => /\ resp.res.thrown
       /\ resp.res.token = Null
       /\ Reported(resp.res).status = 401
C2_Witness ==
    /\ resp.op = "login"
    /\ ReadInactive(resp)
    /\ \E u \in Matches(resp.args.email) : BcryptCompare(resp.args.password, u.password)
    /\ resp.res.thrown

\* C3: the token of a successful login, presented to auth before it expires,
\* attaches the id and the role of the account that logged in.
C3_TokenIdentity ==
    (resp.op = "login" /\ ~resp.res.thrown)
    => \A t \in now .. (MaxTime + ExpiresIn) :
          t < resp.res.token.exp
          => LET out == auth(TRUE, Header("Bearer", <<resp.res.token>>), t)
             IN /\ out.error = NoError
                /\ out.user = [id |-> resp.doc.id, role |-> resp.doc.role]
                /\ \E u \in users : u.id = out.user.id /\ u.role = out.user.role
C3_Witness ==
    /\ resp.op = "login"
    /\ ~resp.res.thrown
    /\ resp.doc.role = "admin"
    /\ now < resp.res.token.exp

\* C4: createUser with an email that another username holds, or a username
\* that another email holds, fails with 409 and writes nothing, in
\* userService.js and in the class-based service alike.
CreateUserOps == {"createUser", "UserService.createUser"}
Taken(data) ==
    \E u \in users :
       \/ u.email = Lower(data.email) /\ u.username # data.username
       \/ u.username = data.username /\ u.email # Lower(data.email)
\* every createUser that meets a taken email or username settles at once
RejectsTaken(ops) ==
    \A p \in Procs :
       (slot[p].pc = "idle" /\ slot'[p].pc = "createSave" /\ slot'[p].op \in ops)
       => ~Taken(slot'[p].args)
\* and it settles with 409, the collection as it was
Answers409(ops) ==
    (SettledAtOnce /\ resp'.op \in ops /\ Taken(resp'.args))
    => /\ resp'.res.thrown
       /\ Reported(resp'.res).status = 409
       /\ users' = users
C4_DuplicateRejected ==
    [][RejectsTaken(CreateUserOps) /\ Answers409(CreateUserOps)]_vars
\* the part of C4 that holds: createUser of userService.js
C4_FunctionalCreateUser ==
    [][RejectsTaken({"createUser"}) /\ Answers409({"createUser"})]_vars

\* C5: no two stored records share a username, and no two share an email.
C5_Unique ==
    \A u, v \in users : u # v => (u.username # v.username /\ u.email # v.email)

\* C6: a createUser whose write the store rejects as a duplicate is reported
\* to its caller with status 409.
C6_RejectedWriteIs409 ==
    (resp.op = "createUser" /\ resp.res.thrown /\ resp.res.error = MongoDupError)
    => Reported(resp.res).status = 409

\* C7 (as stated): updateMe changes no field of a record but username and
\* email, and raises no error because of the other keys of the patch.
\* every record keeps its fields outside F
Keeps(F) ==
    /\ \A v \in users' : \E u \in users :
          u.id = v.id /\ \A f \in (DOMAIN u) \ F : v[f] = u[f]
    /\ \A u \in users : \E v \in users' : v.id = u.id
\* the only failures are a missing account and a duplicate username or email
FailsOnlyForTarget(r) ==
    r.res.thrown => (ById(r.args.userId) = {} \/ r.res.error = MongoDupError)
C7_OnlyUsernameEmail ==
    [][ (resp = NoResp /\ resp'.op \in UpdateMeOps)
        => Keeps({"username", "email"}) /\ FailsOnlyForTarget(resp') ]_vars
\* C7 (amended): updateMe of userService.js changes only username and email;
\* updateMe of the class-based controller never changes password, role or
\* isActive; neither raises an error because of the keys it drops.
C7_DroppedKeys ==
    [][ /\ (resp = NoResp /\ resp'.op = "updateMe")
           => /\ Keeps({"username", "email"})
              /\ FailsOnlyForTarget(resp')
              /\ ~resp'.res.thrown =>
                    \A k \in (DOMAIN resp'.args.update) \cap {"username", "email"} :
                       \E v \in users' :
                          /\ v.id = resp'.args.userId
                          /\ v[k] = IF k = "email" THEN Lower(resp'.args.update[k])
                                    ELSE resp'.args.update[k]
        /\ (resp = NoResp /\ resp'.op = "controller.updateMe")
           => /\ \A u \in users : \E v \in users' :
                    /\ v.id = u.id
                    /\ v.password = u.password
                    /\ v.role = u.role
                    /\ v.isActive = u.isActive
              /\ FailsOnlyForTarget(resp') ]_vars

\* C8 (as stated): after a changePassword that succeeded, the next login
\* with the new password succeeds and the next login with the old one fails.
\* the account still carries the password that changePassword wrote
ChangedAccounts ==
    {u \in users : changed # NoChange /\ u.id = changed.userId /\ u.password = changed.hash}
C8_NewPasswordOnly ==
    (resp.op = "login" /\ \E u \in ChangedAccounts : u.email = Lower(resp.args.email))
    => /\ resp.args.password = changed.newPassword => ~resp.res.thrown
       /\ resp.args.password = changed.currentPassword => resp.res.thrown
\* C8 (amended): after a changePassword that succeeded with a new password
\* different from the current one, a login that reads the account, active
\* and with the password then written, succeeds with the new password and
\* fails with 401 'Invalid credentials' with the old one.
ReadChanged(r) ==
    /\ changed # NoChange
    /\ changed.newPassword # changed.currentPassword
    /\ r.doc # Null
    /\ r.doc.id = changed.userId
    /\ r.doc.password = changed.hash
C8_NewPasswordReplacesOld ==
    (resp.op = "login" /\ ReadChanged(resp))
    => /\ resp.args.password = changed.newPassword => ~resp.res.thrown
       /\ resp.args.password = changed.currentPassword
             => resp.res = Throw(ApiError(401, "Invalid credentials"))
C8_Witness ==
    /\ resp.op = "login"
    /\ ReadChanged(resp)
    /\ resp.args.password = changed.newPassword
    /\ ~resp.res.thrown

\* C9: changePassword with a wrong current password fails with 400 'Current
\* password is incorrect', not login's 401, and leaves the stored hash as it
\* was; changePassword for a missing account fails with 404.
WrongCurrent(a) ==
    \E u \in ById(a.userId) : ~BcryptCompare(a.currentPassword, u.password)
C9_ChangePasswordFailures ==
    [][ /\ \A p \in Procs :
             (slot[p].pc = "idle" /\ slot'[p].pc = "passwordSave")
             => (ById(slot'[p].args.userId) # {} /\ ~WrongCurrent(slot'[p].args))
        /\ (SettledAtOnce /\ resp'.op = "changePassword")
           => /\ ById(resp'.args.userId) = {}
                 => resp'.res = Throw(ApiError(404, "User not found"))
              /\ WrongCurrent(resp'.args)
                 => /\ resp'.res = Throw(ApiError(400, "Current password is incorrect"))
                    /\ resp'.res.error # LoginBadPasswordError
                    /\ Reported(resp'.res).status = 400
                    /\ users' = users ]_vars
C9_Witness ==
    /\ resp.op = "changePassword"
    /\ WrongCurrent(resp.args)
    /\ resp.res.thrown
    /\ resp.res.error.statusCode = 400

\* C10: with no bearer token in the request, auth(true) fails with 401
\* 'Authentication required' and attaches nothing; auth(false) proceeds
\* with req.user = null.
NoBearerToken(h) ==
    \/ ~h.present
    \/ h.scheme # "Bearer"
    \/ h.words = <<>>
    \/ h.words[1] = EmptyWord
C10_NoToken ==
    (guard.mw = "auth" /\ NoBearerToken(guard.header))
    => IF guard.required
       THEN guard.out = [error |-> ApiError(401, "Authentication required"), user |-> Undefined]
       ELSE guard.out = [error |-> NoError, user |-> Null]
C10_Witness ==
    /\ guard.mw = "auth"
    /\ ~guard.required
    /\ guard.header.scheme = "Basic"
    /\ guard.out.user = Null

\* C11: a bearer token that is expired, malformed or signed with another
\* secret fails auth with 401 'Invalid or expired token', the same error in
\* the three cases and for either value of required; no identity is attached.
Presented(h) == h.present /\ h.scheme = "Bearer" /\ h.words # <<>> /\ h.words[1] # EmptyWord
Malformed(tok) == tok.form # "jwt"
ForeignKey(tok) == tok.form = "jwt" /\ tok.key # JWT_SECRET
Expired(tok, t) == tok.form = "jwt" /\ tok.exp <= t
BadToken(g) ==
    /\ g.mw = "auth"
    /\ Presented(g.header)
    /\ \/ Malformed(g.header.words[1])
       \/ ForeignKey(g.header.words[1])
       \/ Expired(g.header.words[1], g.at)
C11_BadTokenRejected ==
    BadToken(guard)
    => guard.out = [error |-> ApiError(401, "Invalid or expired token"), user |-> Undefined]
C11_Witness ==
    /\ BadToken(guard)
    /\ ~guard.required
    /\ Expired(guard.header.words[1], guard.at)
    /\ guard.header.words[1].key = JWT_SECRET
    /\ guard.out.error.statusCode = 401

\* C12: authorize lets a request pass exactly when an identity is present
\* and the role list is empty or holds its role; with no identity it fails
\* with 401 'Authentication required', with another role with 403
\* 'Insufficient permissions'. authorize('admin') passes admin only.
RoleSet(roles) == {roles[i] : i \in 1 .. Len(roles)}
C12_Authorize ==
    guard.mw = "authorize"
    => LET present == guard.user # Null /\ guard.user # Undefined
           listed == present /\ (guard.roles = <<>> \/ guard.user.role \in RoleSet(guard.roles))
       IN /\ (guard.out.error = NoError) <=> listed
          /\ ~present => guard.out.error = ApiError(401, "Authentication required")
          /\ (present /\ ~listed) => guard.out.error = ApiError(403, "Insufficient permissions")
          /\ (guard.roles = <<"admin">> /\ present)
             => ((guard.out.error = NoError) <=> (guard.user.role = "admin"))
C12_Witness ==
    /\ guard.mw = "authorize"
    /\ guard.roles = <<"admin">>
    /\ guard.user # Null /\ guard.user # Undefined
    /\ guard.user.role = "student"
    /\ guard.out.error.statusCode = 403

\* C13: get, update and delete of a user by id succeed only for the owner of
\* the record or an admin; any other authenticated caller fails with 403
\* and the record is neither returned nor changed.
ResourceOps ==
    {"controller.getUser", "controller.updateUser", "controller.deleteUser", "DELETE /:id"}
HasIdentity(a) == a.caller # Null /\ a.caller # Undefined
Stranger(a) == HasIdentity(a) /\ a.caller.id # a.id /\ a.caller.role # "admin"
C13_OwnerOrAdmin ==
    [][ (resp = NoResp /\ resp'.op \in ResourceOps
           /\ Stranger(resp'.args) /\ ById(resp'.args.id) # {})
        => /\ resp'.res.thrown
           /\ Reported(resp'.res).status = 403
           /\ users' = users ]_vars
\* the part of C13 that holds: the DELETE /:id route of userRoutes.js
C13_RemoveRoute ==
    [][ (resp = NoResp /\ resp'.op = "DELETE /:id"
           /\ Stranger(resp'.args) /\ ById(resp'.args.id) # {})
        => /\ resp'.res.thrown
           /\ Reported(resp'.res).status = 403
           /\ users' = users ]_vars

\* C14: on GET / and DELETE /:id the controller runs only after auth,
\* authorize('admin') and validation have passed: without a token the
\* answer is 401, with a valid token of another role 403, and then nothing
\* is listed or deleted.
AdminOps == {"GET /", "DELETE /:id"}
ValidToken(h, t) == Presented(h) /\ jwtVerifies(h.words[1], JWT_SECRET, t)
AdminToken(h, t) == ValidToken(h, t) /\ h.words[1].role = "admin"
ValidInput(r) ==
    IF r.op = "GET /" THEN ValidListQuery(r.args.query) ELSE ValidObjectId(r.args.id)
Refused(r, status) ==
    /\ r.res.thrown
    /\ r.res.user = Null
    /\ Reported(r.res).status = status
C14_AdminPipeline ==
    [][ /\ (resp = NoResp /\ resp'.op \in AdminOps)
           => /\ NoBearerToken(resp'.args.header)
                 => (Refused(resp', 401) /\ users' = users)
              /\ (ValidToken(resp'.args.header, now) /\ ~AdminToken(resp'.args.header, now))
                 => (Refused(resp', 403) /\ users' = users)
              /\ (~resp'.res.thrown \/ users' # users)
                 => (AdminToken(resp'.args.header, now) /\ ValidInput(resp'))
        /\ \A p \in Procs :
              (slot[p].pc = "idle" /\ slot'[p].pc = "listReads")
              => /\ AdminToken(slot'[p].args.header, now)
                 /\ ValidListQuery(slot'[p].args.query) ]_vars
C14_Witness ==
    /\ resp.op = "DELETE /:id"
    /\ ValidToken(resp.args.header, now)
    /\ resp.args.header.words[1].role = "student"
    /\ ById(resp.args.id) # {}
    /\ Refused(resp, 403)

\* C15: a token issued by login passes auth, and authorize with the role it
\* was issued with, at every moment before its expiry, whether the account
\* is active, deactivated or deleted, and is refused once expired; on
\* PATCH /me and POST /me/change-password an unexpired token is never
\* answered 401 or 403, and a deactivated account that presents it has its
\* profile update applied and, giving its current password, its password
\* change carried out.
MeOps == {"PATCH /me", "POST /me/change-password"}
Deactivated(id) == \E u \in ById(id) : ~u.isActive
C15_TokenOutlivesAccount ==
    /\ \A p \in Procs :
         slot[p].pc = "holding" =>
            LET tok == slot[p].doc
                g == auth(TRUE, Bearer(tok), now)
            IN IF now < tok.exp
               THEN /\ g = [error |-> NoError, user |-> [id |-> tok.sub, role |-> tok.role]]
                    /\ authorize(<<tok.role>>, g.user) = NoError
               ELSE g = [error |-> ApiError(401, "Invalid or expired token"),
                         user |-> Undefined]
    /\ (resp.op \in MeOps /\ resp.res.thrown /\ ValidToken(resp.args.header, now))
          => Reported(resp.res).status \notin {401, 403}
    /\ (/\ resp.op = "PATCH /me"
        /\ ValidToken(resp.args.header, now)
        /\ ValidUpdateMeBody(resp.args.update)
        /\ Deactivated(resp.args.header.words[1].sub))
          => /\ ~resp.res.thrown
             /\ \E u \in ById(resp.args.caller.id) :
                   \A k \in DOMAIN resp.args.update : u[k] = resp.args.update[k]
    /\ (/\ resp.op = "POST /me/change-password"
        /\ ValidToken(resp.args.header, now)
        /\ \E u \in ById(resp.args.header.words[1].sub) :
              ~u.isActive /\ comparePassword(u, resp.args.currentPassword))
          => ~resp.res.thrown
C15_Witness ==
    /\ resp.op = "PATCH /me"
    /\ ~resp.res.thrown
    /\ Deactivated(resp.args.caller.id)
    /\ resp.res.user.username = "carol"
C15_PasswordWitness ==
    /\ resp.op = "POST /me/change-password"
    /\ ~resp.res.thrown
    /\ Deactivated(resp.args.userId)
C15_DeletedWitness ==
    \E p \in Procs :
        /\ slot[p].pc = "holding"
        /\ now < slot[p].doc.exp
        /\ ById(slot[p].doc.sub) = {}

\* C16: login writes lastLoginAt and failedLoginAttempts (loginUser:
\* lastLogin) to the store before it issues the token: a login that returns
\* a token leaves the written values in the stored record, and a login whose
\* save fails is rejected with no token and no user, the store untouched.
SaveFails(p) ==
    slot[p].pc \in {"loginSave", "loginUserSave"} /\ ById(slot[p].doc.id) = {}
C16_SaveBeforeToken ==
    [][ /\ (resp = NoResp /\ resp'.op \in LoginOps /\ resp'.res.token # Null)
           => \E u \in users' :
                 /\ u.id = resp'.doc.id
                 /\ u.lastLoginAt = resp'.doc.lastLoginAt
                 /\ resp'.op = "login" => u.failedLoginAttempts = 0
        /\ \A p \in Procs :
             (SaveFails(p) /\ slot'[p].pc = "idle")
                => /\ resp'.op \in LoginOps
                   /\ resp'.res.thrown
                   /\ resp'.res.token = Null
                   /\ resp'.res.user = Null
                   /\ users' = users ]_vars
C16_Witness ==
    /\ resp.op \in LoginOps
    /\ resp.res.thrown
    /\ resp.res.error = DocNotFoundError
    /\ ById(resp.doc.id) = {}

\* C17: when a login succeeds, the stored record of the account has
\* lastLoginAt (lastLogin for loginUser) not earlier than the moment the call
\* began and, for login, failedLoginAttempts = 0.
C17_LoginStamp ==
    (resp.op \in LoginOps /\ ~resp.res.thrown)
    => /\ ById(resp.doc.id) # {}
       /\ \A u \in ById(resp.doc.id) :
             /\ u.lastLoginAt >= resp.args.started
             /\ resp.op = "login" => u.failedLoginAttempts = 0
C17_Witness ==
    /\ resp.op = "login"
    /\ ~resp.res.thrown
    /\ now > resp.args.started
    /\ \E u \in ById(resp.doc.id) : u.lastLoginAt = resp.args.started

\* C18: no user written into the response of register, login, me, updateMe
\* or list, or returned by getUserById, getUserByEmail (without
\* includePassword), createUser or loginUser of the class-based service,
\* has a password field.
UserPayloadOps ==
    {"createUser", "login", "getUserById", "updateMe", "GET /",
     "controller.getUser", "UserService.getUserByEmail", "UserService.createUser",
     "loginUser"}
C18_NoPasswordInPayload ==
    (resp.op \in UserPayloadOps /\ ~resp.res.thrown /\ resp.res.user # Null)
    => \A u \in ResponseUsers(resp) : "password" \notin DOMAIN u
C18_Witness ==
    /\ resp.op = "createUser"
    /\ ~resp.res.thrown
    /\ "password" \in DOMAIN resp.res.user
    /\ IsHash(resp.res.user.password)

\* C19: every stored record holds a bcrypt hash in password, never a
\* plaintext a caller supplied; a record's password is written only by
\* register and by changePassword, and updateMe and login leave it as it is.
PasswordWriters == {"createUser", "UserService.createUser", "changePassword"}
PasswordWritten ==
    \E v \in users' : \A u \in users : u.id = v.id => u.password # v.password
C19_StoredHash ==
    /\ [](\A u \in users :
            IsHash(u.password) /\ \A pw \in Passwords : u.password # Plain(pw))
    /\ [][PasswordWritten => resp'.op \in PasswordWriters]_vars
C19_Witness ==
    /\ resp.op = "updateMe"
    /\ ~resp.res.thrown
    /\ "password" \in DOMAIN resp.args.update
    /\ changed # NoChange
    /\ \E u \in ById(resp.args.userId) : u.password = changed.hash

\* C20: with NODE_ENV = production, an error that is neither an ApiError nor
\* a validation error and carries no status (an error of the driver or of
\* Mongoose thrown inside a service operation) is answered with status 500
\* and a body without a stack trace and without the error's own text.
Unexpected(err) == err.name \notin {"ApiError", "CelebrateError"} /\ err.statusCode = 0
C20_GenericError ==
    (resp.op # "" /\ resp.res.thrown /\ Unexpected(resp.res.error))
    => LET body == ErrorBody(resp.res.error, "production")
       IN /\ body.status = 500
          /\ "stack" \notin DOMAIN body
          /\ body.message # resp.res.error.message
\* what does hold: the status is 500, and the stack is sent exactly when
\* NODE_ENV is not production
C20_NoStackInProduction ==
    (resp.op # "" /\ resp.res.thrown /\ Unexpected(resp.res.error))
    => \A env \in NodeEnvs :
          LET body == ErrorBody(resp.res.error, env)
          IN /\ body.status = 500
             /\ ("stack" \in DOMAIN body) = (env # "production")

\* C21: deleteUser removes the record for good: when it succeeds the record
\* is absent and the rest of the store is as it was, and on an id without a
\* record it fails with 404 and changes nothing; a record enters the store
\* only as the new document of a registration, so a deleted one never
\* returns; getUserById of an absent id fails with 404 'User not found';
\* login never returns an absent account, and with no account left under
\* the email it fails with 401 'Invalid credentials' (a login that had read
\* the account before the deletion fails at its save instead).
Inserted(v) ==
    \E p \in Procs :
        slot[p].pc = "createSave" /\ slot[p].doc.id = v.id /\ slot'[p].pc = "idle"
ListingOps == {"GET /", "UserService.getUsers"}
PageCount(total, limit) == Max(1, Ceil(total, limit))
C22_PageCount ==
    (resp.op \in ListingOps /\ ~resp.res.thrown)
    => /\ resp.res.user.pages = PageCount(resp.res.user.total, resp.res.user.limit)
       /\ resp.res.user.pages >= 1
\* what does hold: listUsers counts at least one page, getUsers counts
\* ceil(total / limit), which is 0 for an empty result
C22_ListUsersPages ==
    (resp.op \in ListingOps /\ ~resp.res.thrown)
    => LET r == resp.res.user
       IN IF resp.op = "GET /"
          THEN r.pages = PageCount(r.total, r.limit)
          ELSE r.pages = Ceil(r.total, r.limit) /\ (r.pages = 0) = (r.total = 0)

\* C23: login, loginUser and getUserByEmail match the account by the
\* lowercased email: a login that passes its lookup holds the account stored
\* under the lowercase form of the address it was given, a login answers
\* "no such user" only when no (active) account is stored under that form,
\* and getUserByEmail returns an account stored under it or null when there
\* is none.
LoginWaits == {"loginSave", "loginUserSave"}
C23_LowercasedLookup ==
    /\ [](\A p \in Procs :
            slot[p].pc \in LoginWaits => slot[p].doc.email = Lower(slot[p].args.email))
    /\ [][(resp = NoResp /\ resp'.op \in LoginOps /\ slot' = slot /\ resp'.doc = Null)
            => ~\E u \in users :
                  /\ u.email = Lower(resp'.args.email)
                  /\ resp'.op = "login" => u.isActive]_vars
    /\ [](resp.op = "UserService.getUserByEmail"
            => IF Matches(resp.args.email) = {}
               THEN resp.res.user = Null
               ELSE \E u \in Matches(resp.args.email) : resp.res.user = Projected(u))
C23_Witness ==
    /\ resp.op = "login"
    /\ ~resp.res.thrown
    /\ resp.args.email # Lower(resp.args.email)
    /\ resp.res.user.email = Lower(resp.args.email)

\* C24: loginUser with the correct password of an account that is
\* deactivated is rejected with 'Account is deactivated'; with an unknown
\* email, or a wrong password for an active account, it is rejected with
\* 'Invalid credentials', and the two errors differ.
C24_DeactivatedError ==
    (resp.op = "loginUser" /\ resp.res.thrown /\ resp.res.error # DocNotFoundError)
    => /\ (resp.doc # Null /\ ~resp.doc.isActive
              /\ matchPassword(resp.doc, resp.args.password))
            => /\ resp.res.error = Error(401, "Account is deactivated")
               /\ resp.res.error.message # "Invalid credentials"
       /\ (resp.doc = Null \/ (resp.doc.isActive
                                /\ ~matchPassword(resp.doc, resp.args.password)))
            => resp.res.error = Error(401, "Invalid credentials")
C24_Witness ==
    /\ resp.op = "loginUser"
    /\ resp.res.thrown
    /\ resp.doc # Null
    /\ ~resp.doc.isActive
    /\ matchPassword(resp.doc, resp.args.password)

\* C25: an account registered without a role is stored with the
\* lowest-privilege role, isActive = TRUE, failedLoginAttempts = 0 and no
\* lastLoginAt, and the lastLoginAt of an account is set only by a
\* successful login of that account.
CreateOps == {"createUser", "UserService.createUser"}
FirstStamp(op) ==
    \E u \in users, v \in users' :
        /\ u.id = v.id
        /\ u.lastLoginAt = -1
        /\ v.lastLoginAt # -1
        /\ ~(resp'.op \in op /\ ~resp'.res.thrown /\ resp'.doc.id = v.id)
CreatedWithDefaults ==
    (resp.op \in CreateOps /\ ~resp.res.thrown)
    => \E u \in ById(resp.doc.id) :
          /\ resp.args.role = Absent => u.role = "student"
          /\ u.isActive
          /\ u.failedLoginAttempts = 0
          /\ u.lastLoginAt = -1
C25_Defaults ==
    /\ []CreatedWithDefaults
    /\ [][~FirstStamp(LoginOps)]_vars
\* what does hold: the defaults at creation, and lastLoginAt is first set by
\* a successful login or by updateMe of the class-based controller
C25_DefaultsAtCreation ==
    /\ []CreatedWithDefaults
    /\ [][~FirstStamp(LoginOps \cup {"controller.updateMe"})]_vars

\* C26: no request to the public register route stores an account whose
\* role is above the lowest-privilege one, unless a verified admin made it.
StoredBy(op) == {v \in users' : resp'.op = op /\ \A u \in users : u.id # v.id}
AdminCaller(a) == a.caller # Undefined /\ a.caller # Null /\ a.caller.role = "admin"
C26_NoPublicAdmin ==
    [][\A v \in StoredBy("POST /register") :
          v.role # "student" => AdminCaller(resp'.args)]_vars
\* what does hold: the stored role is the role of the body, student when the
\* body has none, and a body whose role is outside the enumeration is rejected
C26_RoleAsRequested ==
    /\ [][\A v \in StoredBy("POST /register") :
             v.role = (IF resp'.args.body.role = Absent THEN "student"
                       ELSE resp'.args.body.role)]_vars
    /\ []((resp.op = "POST /register" /\ resp.args.body.role \notin Roles \cup {Absent})
            => (resp.res.thrown /\ resp.res.error = CelebrateError))

\* C27: every stored record has failedLoginAttempts = 0; a login that fails
\* changes no record; and a login is refused for its credentials only when
\* the account it read is inactive or has another password, or no active
\* account has that email, whatever logins failed before.
CredentialErrors == {LoginNoUserError, LoginBadPasswordError,
                     Error(401, "Invalid credentials"), LoginUserDeactivatedError}
Authenticates(doc, a) ==
    IF doc = Null
    THEN \E u \in users : u.email = Lower(a.email) /\ u.isActive
    ELSE doc.isActive /\ comparePassword(doc, a.password)
LoginWrites == {"lastLoginAt", "failedLoginAttempts"}
C28_LoginKeepsHash ==
    [][(resp'.op = "login" /\ ~resp'.res.thrown)
        => /\ {v.id : v \in users'} = {u.id : u \in users}
           /\ \A u \in users : \E v \in users' :
                 /\ v.id = u.id
                 /\ v.password = u.password
                 /\ \A pw \in Passwords : comparePassword(u, pw) => comparePassword(v, pw)
                 /\ \A f \in (DOMAIN u) \ LoginWrites : v[f] = u[f]
                 /\ u.id # resp'.doc.id => v = u]_vars
\* a login has succeeded and its password authenticates against the stored hash
C28_Witness ==
    /\ resp.op = "login"
    /\ ~resp.res.thrown
    /\ \E u \in ById(resp.doc.id) :
          /\ comparePassword(u, resp.args.password)
          /\ u.password = resp.doc.password
          /\ u.lastLoginAt = resp.doc.lastLoginAt

\* C29: a changePassword succeeds only if its currentPassword matches the
\* hash that is stored when it writes, so that of two concurrent requests
\* that present the original password at most one succeeds.
C29_CurrentAtWrite ==
    [][(resp'.op = "changePassword" /\ ~resp'.res.thrown)
        => \E u \in ById(resp'.doc.id) : comparePassword(u, resp'.args.currentPassword)]_vars
\* what does hold: the request that succeeds has passed the comparison
\* against the hash it read, and the account exists when it writes
C29_CurrentAtRead ==
    /\ [](\A p \in Procs : slot[p].pc = "passwordSave"
            => /\ slot[p].doc.password = Plain(slot[p].args.newPassword)
               /\ slot[p].doc.id = slot[p].args.userId)
    /\ [][(resp'.op = "changePassword" /\ ~resp'.res.thrown)
           => /\ ById(resp'.doc.id) # {}
              /\ \E p \in Procs : slot[p].pc = "passwordSave" /\ slot'[p].pc = "idle"]_vars

\* C30: a request to GET /me, PATCH /me or POST /me/change-password that
\* carries a verified token leaves every record whose id is not the subject
\* of the token as it was, and returns no record but the subject's,
\* whatever its body contains.
SelfOps == MeOps \cup {"GET /me"}
Subject(h) == h.words[1].sub
C30_OwnRecordOnly ==
    /\ []((resp.op \in SelfOps /\ resp.res.user # Null)
            => resp.res.user.id = Subject(resp.args.header))
    /\ []((resp.op \in SelfOps /\ resp.doc # Null)
            => resp.doc.id = Subject(resp.args.header))
    /\ [][resp'.op \in SelfOps
            => \A u \in users : u.id # Subject(resp'.args.header) => u \in users']_vars
    /\ [][resp'.op \in SelfOps
            => \A v \in users' : v.id # Subject(resp'.args.header) => v \in users]_vars
\* the caller of one account has changed its record while the record of
\* another account is stored
C30_Witness ==
    /\ resp.op = "PATCH /me"
    /\ ~resp.res.thrown
    /\ \E u \in ById(Subject(resp.args.header)) : u.username = "bob" /\ u.email = "a@x.com"
    /\ \E u \in users : u.id # Subject(resp.args.header) /\ u.username = "alice"
====
